---- MODULE Spec2Model ----
(***************************************************************************)
(* The Pioneer AVR integration (custom_components/pioneer_async):          *)
(* async_setup_entry, _update_listener and async_unload_entry as           *)
(* coroutines stepped by the host's event loop.  The host (config entry     *)
(* states, task scheduling, dispatcher) and the aiopioneer client (outcome *)
(* of each call) are the environment.  The host never has two lifecycle    *)
(* calls of one entry in progress; the code shares nothing between entries *)
(* but the keyed map, so one entry is explored.                            *)
(*                                                                         *)
(* Environment: every call inside the try block of async_setup_entry may   *)
(* raise; async_forward_entry_unload returns True or False and             *)
(* pioneer.shutdown() returns, as the code takes for granted; the host     *)
(* starts an options update once the listener tasks of the previous one    *)
(* have run.                                                               *)
(***************************************************************************)
EXTENDS Integers, Sequences, FiniteSets, TLC

\* ------------------------------------------------------------- bounds

\* Number of PioneerAVR constructions explored (setup attempts in total).
MaxClients == 3

\* ---------------------------------------------------------- constants

\* The config entries of the integration (entry.entry_id).
Entries == {"e1"}

\* entry.unique_id of a config entry (distinct per entry in the host).
unique_id(e) == "uid-" \o e

PLATFORMS == {"media_player", "sensor"}
PIONEER_OPTIONS_UPDATE == "pioneer_options_update"

\* Sample values of entry.options[CONF_SOURCES]: an empty JSON object, a
\* one-entry JSON object, JSON null, a truncated object and the empty string
\* (json.loads rejects the last two).
SourceStrings == {"{}", "{\"TV\": \"05\"}", "null", "{\"TV\": ", ""}
OptionValues == [sources : SourceStrings]

\* Exceptions a client call can raise; "ok" is normal completion.
Exceptions == {"TimeoutError", "ValueError", "AttributeError", "OSError"}
Outcomes == {"ok"} \cup Exceptions

NoClient == 0

\* ------------------------------------------------------ pure functions

\* Python values produced by json.loads on the sample strings.
PyDict(items) == [type |-> "dict", items |-> items]
PyNone == [type |-> "None", items |-> {}]

\* json.loads(s): [ok, value]; ok = FALSE stands for JSONDecodeError.
json_loads(s) ==
  CASE s = "{}" -> [ok |-> TRUE, value |-> PyDict({})]
    [] s = "{\"TV\": \"05\"}" -> [ok |-> TRUE, value |-> PyDict({<<"TV", "05">>})]
    [] s = "null" -> [ok |-> TRUE, value |-> PyNone]
    [] OTHER -> [ok |-> FALSE, value |-> PyNone]

\* Python truth value of a decoded value (`if sources:`).
Truthy(v) == v.type = "dict" /\ v.items # {}

\* options = {**OPTIONS_DEFAULTS, **entry_options}; options[CONF_SOURCES]:
\* the entry's own value overrides the default whenever the key is set.
MergedSources(entry_options) == entry_options.sources

DecodeSourcesSilent(s) ==
  IF json_loads(s).ok THEN [sources |-> json_loads(s).value, logged |-> FALSE]
  ELSE [sources |-> PyDict({}), logged |-> FALSE]

\* try: sources = json.loads(...) except: _LOGGER.error(...); sources = {}
DecodeSources(s) ==
  IF json_loads(s).ok THEN [sources |-> json_loads(s).value, logged |-> FALSE]
  ELSE [sources |-> PyDict({}), logged |-> TRUE]

SourceCallAlwaysBuild(sources) == "build_source_dict"

SourceCallAlwaysSet(sources) == "set_source_dict"

\* if sources: set_source_dict(sources) else: build_source_dict()
SourceCall(sources) ==
  IF Truthy(sources) THEN "set_source_dict" ELSE "build_source_dict"

TranslateTimeoutOnly(exc) ==
  IF exc = "TimeoutError" THEN "ConfigEntryNotReady" ELSE exc

\* except (asyncio.TimeoutError, ValueError, AttributeError) as exc:
\*     raise ConfigEntryNotReady from exc
Translate(exc) ==
  IF exc \in {"TimeoutError", "ValueError", "AttributeError"}
  THEN "ConfigEntryNotReady" ELSE exc

\* f"{PIONEER_OPTIONS_UPDATE}-{entry.unique_id}"
Topic(e) == PIONEER_OPTIONS_UPDATE \o "-" \o unique_id(e)

\* -------------------------------------------------------------- state

VARIABLES
  pc,          \* per entry: host state when idle, else position in the call
  options,     \* entry.options
  src_option,  \* options[CONF_SOURCES] as read by the running setup call
  sources,     \* local `sources` of the running setup call
  logged,      \* _LOGGER.error was called in the running setup call
  pioneer,     \* local `pioneer` of the running call (NoClient: unbound)
  trace,       \* client calls and effects of the running setup call, in order
  exc,         \* exception raised out of the running setup call ("none")
  next_client, \* number of PioneerAVR instances constructed so far
  owner,       \* entry each constructed client was built for
  shut,        \* clients whose shutdown() was invoked
  hass_data,   \* hass.data[DOMAIN]: entry -> client (NoClient: key absent)
  devices,     \* entries with a device in the device registry
  fwd,         \* pending async_forward_entry_setup tasks per entry, platform
  listeners,   \* len(entry.update_listeners)
  unload,      \* per entry, platform: state of the forwarded unload
  ret,         \* return value of the running unload call ("none")
  ltasks,      \* pending listener tasks of the last options update
  updated,     \* entry of the last options update ("none")
  sent         \* dispatcher signals sent since the last options update

vars == <<pc, options, src_option, sources, logged, pioneer, trace, exc, next_client,
          owner, shut, hass_data, devices, fwd, listeners, unload, ret,
          ltasks, updated, sent>>

HostStates == {"NOT_LOADED", "LOADED", "SETUP_RETRY", "SETUP_ERROR",
               "FAILED_UNLOAD"}

Init ==
  /\ pc = [e \in Entries |-> "NOT_LOADED"]
  /\ options \in [Entries -> OptionValues]
  /\ src_option = [e \in Entries |-> "none"]
  /\ sources = [e \in Entries |-> PyNone]
  /\ logged = [e \in Entries |-> FALSE]
  /\ pioneer = [e \in Entries |-> NoClient]
  /\ trace = [e \in Entries |-> <<>>]
  /\ exc = [e \in Entries |-> "none"]
  /\ next_client = 0
  /\ owner = <<>>
  /\ shut = {}
  /\ hass_data = [e \in Entries |-> NoClient]
  /\ devices = {}
  /\ fwd = [e \in Entries |-> [p \in PLATFORMS |-> 0]]
  /\ listeners = [e \in Entries |-> 0]
  /\ unload = [e \in Entries |-> [p \in PLATFORMS |-> "none"]]
  /\ ret = [e \in Entries |-> "none"]
  /\ ltasks = [e \in Entries |-> 0]
  /\ updated = "none"
  /\ sent = <<>>

\* ------------------------------------------------------------ helpers

\* One entry of the call record: the call, its argument and how it ended.
Ev(name, arg, out) == [call |-> name, arg |-> arg, out |-> out]

Calls(e) == [i \in 1..Len(trace[e]) |-> trace[e][i].call]

\* Number of occurrences of call `name` in the running setup call of e.
Count(e, name) == Cardinality({i \in 1..Len(trace[e]) : trace[e][i].call = name})

SetupIdle == {"NOT_LOADED", "SETUP_RETRY", "SETUP_ERROR"}

\* ------------------------------------------------- async_setup_entry

\* Entry into async_setup_entry: options merge and decoding of the sources.
SetupStart(e) ==
  /\ pc[e] \in SetupIdle
  /\ next_client < MaxClients
  /\ LET d == DecodeSources(MergedSources(options[e])) IN
       /\ src_option' = [src_option EXCEPT ![e] = MergedSources(options[e])]
       /\ sources' = [sources EXCEPT ![e] = d.sources]
       /\ logged' = [logged EXCEPT ![e] = d.logged]
  /\ pc' = [pc EXCEPT ![e] = "construct"]
  /\ UNCHANGED <<options, pioneer, trace, exc, next_client, owner, shut,
                 hass_data, devices, fwd, listeners, unload, ret, ltasks,
                 updated, sent>>

\* An exception raised inside the try block leaves through the except clause.
Raise(e, o) ==
  /\ exc' = [exc EXCEPT ![e] = Translate(o)]
  /\ pc' = [pc EXCEPT ![e] = "setup_raised"]

\* Construct with the client put into hass.data as soon as it is built.
ConstructStoresClient(e) ==
  /\ pc[e] = "construct"
  /\ \E o \in Outcomes :
       /\ trace' = [trace EXCEPT ![e] = Append(@, Ev("PioneerAVR", PyNone, o))]
       /\ IF o = "ok"
          THEN /\ next_client' = next_client + 1
               /\ owner' = Append(owner, e)
               /\ pioneer' = [pioneer EXCEPT ![e] = next_client + 1]
               /\ hass_data' = [hass_data EXCEPT ![e] = next_client + 1]
               /\ pc' = [pc EXCEPT ![e] = "connect"]
               /\ UNCHANGED exc
          ELSE /\ Raise(e, o)
               /\ UNCHANGED <<next_client, owner, pioneer, hass_data>>
  /\ UNCHANGED <<options, src_option, sources, logged, shut, devices, fwd,
                 listeners, unload, ret, ltasks, updated, sent>>

\* pioneer = PioneerAVR(host, port, timeout, scan_interval=..., params=...)
Construct(e) ==
  /\ pc[e] = "construct"
  /\ \E o \in Outcomes :
       /\ trace' = [trace EXCEPT ![e] = Append(@, Ev("PioneerAVR", PyNone, o))]
       /\ IF o = "ok"
          THEN /\ next_client' = next_client + 1
               /\ owner' = Append(owner, e)
               /\ pioneer' = [pioneer EXCEPT ![e] = next_client + 1]
               /\ pc' = [pc EXCEPT ![e] = "connect"]
               /\ UNCHANGED exc
          ELSE /\ Raise(e, o)
               /\ UNCHANGED <<next_client, owner, pioneer>>
  /\ UNCHANGED <<options, src_option, sources, logged, shut, hass_data, devices, fwd,
                 listeners, unload, ret, ltasks, updated, sent>>

\* One awaited client call at position `here`, continuing at `there`.
ClientStep(e, here, name, arg, there) ==
  /\ pc[e] = here
  /\ \E o \in Outcomes :
       /\ trace' = [trace EXCEPT ![e] = Append(@, Ev(name, arg, o))]
       /\ IF o = "ok"
          THEN pc' = [pc EXCEPT ![e] = there] /\ UNCHANGED exc
          ELSE Raise(e, o)
  /\ UNCHANGED <<options, src_option, sources, logged, pioneer, next_client, owner, shut,
                 hass_data, devices, fwd, listeners, unload, ret, ltasks,
                 updated, sent>>

\* await pioneer.connect()
Connect(e) == ClientStep(e, "connect", "connect", PyNone, "query_device_info")

\* await pioneer.query_device_info()
QueryDeviceInfo(e) ==
  ClientStep(e, "query_device_info", "query_device_info", PyNone, "query_zones")

\* await pioneer.query_zones()
QueryZones(e) == ClientStep(e, "query_zones", "query_zones", PyNone, "source")

\* pioneer.set_source_dict(sources) or await pioneer.build_source_dict()
SourceDict(e) ==
  IF SourceCall(sources[e]) = "set_source_dict"
  THEN ClientStep(e, "source", "set_source_dict", sources[e], "store")
  ELSE ClientStep(e, "source", "build_source_dict", PyNone, "store")

\* hass.data[DOMAIN][entry.entry_id] = pioneer, up to the await of the registry
Store(e) ==
  /\ pc[e] = "store"
  /\ hass_data' = [hass_data EXCEPT ![e] = pioneer[e]]
  /\ trace' = [trace EXCEPT ![e] = Append(@, Ev("store", PyNone, "ok"))]
  /\ pc' = [pc EXCEPT ![e] = "get_registry"]
  /\ UNCHANGED <<options, src_option, sources, logged, pioneer, exc, next_client, owner,
                 shut, devices, fwd, listeners, unload, ret, ltasks, updated,
                 sent>>

\* device_registry.async_get_or_create(...); one task per platform;
\* entry.add_update_listener(_update_listener); return True
RegisterAndForward(e) ==
  /\ pc[e] = "get_registry"
  /\ devices' = devices \cup {e}
  /\ fwd' = [fwd EXCEPT ![e] = [p \in PLATFORMS |-> fwd[e][p] + 1]]
  /\ listeners' = [listeners EXCEPT ![e] = @ + 1]
  /\ trace' = [trace EXCEPT ![e] =
                 @ \o <<Ev("async_get_or_create", PyNone, "ok"),
                        Ev("async_create_task", PyNone, "ok"),
                        Ev("add_update_listener", PyNone, "ok")>>]
  /\ pc' = [pc EXCEPT ![e] = "setup_done"]
  /\ UNCHANGED <<options, src_option, sources, logged, pioneer, exc, next_client, owner,
                 shut, hass_data, unload, ret, ltasks, updated, sent>>

\* The host takes the result of async_setup_entry: True -> LOADED,
\* ConfigEntryNotReady -> SETUP_RETRY, any other exception -> SETUP_ERROR.
\* The locals of the call are gone.
HostSetupResult(e) ==
  /\ pc[e] \in {"setup_done", "setup_raised"}
  /\ pc' = [pc EXCEPT ![e] =
              IF pc[e] = "setup_done" THEN "LOADED"
              ELSE IF exc[e] = "ConfigEntryNotReady" THEN "SETUP_RETRY"
              ELSE "SETUP_ERROR"]
  /\ src_option' = [src_option EXCEPT ![e] = "none"]
  /\ sources' = [sources EXCEPT ![e] = PyNone]
  /\ logged' = [logged EXCEPT ![e] = FALSE]
  /\ pioneer' = [pioneer EXCEPT ![e] = NoClient]
  /\ trace' = [trace EXCEPT ![e] = <<>>]
  /\ exc' = [exc EXCEPT ![e] = "none"]
  /\ UNCHANGED <<options, next_client, owner, shut, hass_data, devices, fwd,
                 listeners, unload, ret, ltasks, updated, sent>>

\* A scheduled async_forward_entry_setup task runs the platform's setup.
ForwardSetupRun(e, p) ==
  /\ fwd[e][p] > 0
  /\ fwd' = [fwd EXCEPT ![e][p] = @ - 1]
  /\ UNCHANGED <<pc, options, src_option, sources, logged, pioneer, trace, exc,
                 next_client, owner, shut, hass_data, devices, listeners,
                 unload, ret, ltasks, updated, sent>>

\* ------------------------------------------------- _update_listener

\* The host stores new options and creates one task per registered listener.
UpdateOptions(e) ==
  /\ \A x \in Entries : ltasks[x] = 0
  /\ \E o \in OptionValues :
       /\ o # options[e]
       /\ options' = [options EXCEPT ![e] = o]
  /\ ltasks' = [ltasks EXCEPT ![e] = listeners[e]]
  /\ updated' = e
  /\ sent' = <<>>
  /\ UNCHANGED <<pc, src_option, sources, logged, pioneer, trace, exc, next_client, owner,
                 shut, hass_data, devices, fwd, listeners, unload, ret>>

\* async_dispatcher_send(hass, f"{PIONEER_OPTIONS_UPDATE}-{uid}", entry.options)
UpdateListener(e) ==
  /\ ltasks[e] > 0
  /\ ltasks' = [ltasks EXCEPT ![e] = @ - 1]
  /\ sent' = Append(sent, [topic |-> Topic(e), payload |-> options[e]])
  /\ UNCHANGED <<pc, options, src_option, sources, logged, pioneer, trace, exc,
                 next_client, owner, shut, hass_data, devices, fwd, listeners,
                 unload, ret, updated>>

\* ------------------------------------------------ async_unload_entry

\* asyncio.gather(*[async_forward_entry_unload(entry, c) for c in PLATFORMS])
GatherStart(e) ==
  /\ pc[e] = "LOADED"
  /\ unload' = [unload EXCEPT ![e] = [p \in PLATFORMS |-> "started"]]
  /\ pc' = [pc EXCEPT ![e] = "gather"]
  /\ UNCHANGED <<options, src_option, sources, logged, pioneer, trace, exc, next_client,
                 owner, shut, hass_data, devices, fwd, listeners, ret, ltasks,
                 updated, sent>>

\* One forwarded platform unload completes, with True or False.
ForwardUnloadDone(e, p) ==
  /\ pc[e] = "gather"
  /\ unload[e][p] = "started"
  /\ \E r \in {"ok", "failed"} :
       unload' = [unload EXCEPT ![e][p] = r]
  /\ UNCHANGED <<pc, options, src_option, sources, logged, pioneer, trace, exc,
                 next_client, owner, shut, hass_data, devices, fwd, listeners,
                 ret, ltasks, updated, sent>>

GatherDoneAny(e) == \E p \in PLATFORMS : unload[e][p] \in {"ok", "failed"}

\* await asyncio.gather(...) returns once every awaitable has completed.
GatherDone(e) == \A p \in PLATFORMS : unload[e][p] \in {"ok", "failed"}

UnloadOkAny(e) == \E p \in PLATFORMS : unload[e][p] = "ok"

\* unload_ok = all(...)
UnloadOk(e) == \A p \in PLATFORMS : unload[e][p] = "ok"

\* pioneer = hass.data[DOMAIN][entry.entry_id]; await pioneer.shutdown()
Shutdown(e) ==
  /\ pc[e] = "gather"
  /\ GatherDone(e)
  /\ pioneer' = [pioneer EXCEPT ![e] = hass_data[e]]
  /\ shut' = shut \cup {hass_data[e]}
  /\ pc' = [pc EXCEPT ![e] = "shutdown"]
  /\ UNCHANGED <<options, src_option, sources, logged, trace, exc, next_client, owner,
                 hass_data, devices, fwd, listeners, unload, ret, ltasks,
                 updated, sent>>

\* if unload_ok: hass.data[DOMAIN].pop(entry.entry_id); return unload_ok
UnloadReturn(e) ==
  /\ pc[e] = "shutdown"
  /\ hass_data' = [hass_data EXCEPT ![e] = IF UnloadOk(e) THEN NoClient ELSE @]
  /\ ret' = [ret EXCEPT ![e] = UnloadOk(e)]
  /\ pc' = [pc EXCEPT ![e] = "unload_returned"]
  /\ UNCHANGED <<options, src_option, sources, logged, pioneer, trace, exc, next_client,
                 owner, shut, devices, fwd, listeners, unload, ltasks, updated,
                 sent>>

\* The host takes the result of async_unload_entry: True -> NOT_LOADED,
\* False -> FAILED_UNLOAD (no further setup or unload of the entry).
HostUnloadResult(e) ==
  /\ pc[e] = "unload_returned"
  /\ pc' = [pc EXCEPT ![e] = IF ret[e] = TRUE THEN "NOT_LOADED" ELSE "FAILED_UNLOAD"]
  /\ unload' = [unload EXCEPT ![e] = [p \in PLATFORMS |-> "none"]]
  /\ ret' = [ret EXCEPT ![e] = "none"]
  /\ pioneer' = [pioneer EXCEPT ![e] = NoClient]
  /\ UNCHANGED <<options, src_option, sources, logged, trace, exc, next_client, owner,
                 shut, hass_data, devices, fwd, listeners, ltasks, updated,
                 sent>>

\* ------------------------------------------------------ specification

Next ==
  \E e \in Entries :
    \/ SetupStart(e)
    \/ Construct(e)
    \/ Connect(e)
    \/ QueryDeviceInfo(e)
    \/ QueryZones(e)
    \/ SourceDict(e)
    \/ Store(e)
    \/ RegisterAndForward(e)
    \/ HostSetupResult(e)
    \/ \E p \in PLATFORMS : ForwardSetupRun(e, p)
    \/ UpdateOptions(e)
    \/ UpdateListener(e)
    \/ GatherStart(e)
    \/ \E p \in PLATFORMS : ForwardUnloadDone(e, p)
    \/ Shutdown(e)
    \/ UnloadReturn(e)
    \/ HostUnloadResult(e)

Spec == Init /\ [][Next]_vars

\* ------------------------------------------------------------- claims

InSetup(e) == src_option[e] # "none"

\* The sources option read by the running setup decodes without error.
WellFormed(e) == InSetup(e) /\ json_loads(src_option[e]).ok

ClientCalls == <<"PioneerAVR", "connect", "query_device_info", "query_zones">>

Effects == <<"store", "async_get_or_create", "async_create_task",
             "add_update_listener">>

IsPrefix(s, t) == Len(s) <= Len(t) /\ \A i \in 1..Len(s) : s[i] = t[i]

AllUnloadsSucceeded(e) ==
  unload[e]["media_player"] = "ok" /\ unload[e]["sensor"] = "ok"

\* C1: when async_unload_entry returns, whatever the platform unload
\* outcomes were, shutdown was invoked on the entry's client, the stored
\* reference is gone if every platform unload succeeded and still there if
\* one failed, and the returned boolean says whether all succeeded.
C1_UnloadContract ==
  \A e \in Entries :
    pc[e] = "unload_returned" =>
      /\ pioneer[e] # NoClient
      /\ pioneer[e] \in shut
      /\ AllUnloadsSucceeded(e) => hass_data[e] = NoClient
      /\ ~AllUnloadsSucceeded(e) => hass_data[e] = pioneer[e]
      /\ ret[e] = AllUnloadsSucceeded(e)

C1_Witness ==
  \E e \in Entries :
    /\ pc[e] = "unload_returned"
    /\ unload[e]["media_player"] = "ok"
    /\ unload[e]["sensor"] = "failed"
    /\ ret[e] = FALSE
    /\ hass_data[e] \in shut

\* C2 (as claimed): one options update of an entry causes exactly one
\* signal, on the topic of the entry's unique id, carrying the new options,
\* and nothing on another topic, after any sequence of setups and unloads.
C2_OneSignalPerUpdate ==
  \A e \in Entries :
    updated = e =>
      /\ Len(sent) + ltasks[e] <= 1
      /\ \A i \in 1..Len(sent) :
           sent[i] = [topic |-> Topic(e), payload |-> options[e]]

\* The setup got past query_zones: its source step was taken.
SourceStepTaken(e) == Len(trace[e]) >= 5

\* C3 (as claimed): every setup whose sources option decodes without error,
\* an empty object included, passes the decoded value to set_source_dict
\* and never invokes build_source_dict (read for the setups that get as far
\* as the source step).
C3_WellFormedAlwaysExplicit ==
  \A e \in Entries :
    (SourceStepTaken(e) /\ WellFormed(e)) =>
      /\ \E i \in 1..Len(trace[e]) :
           /\ trace[e][i].call = "set_source_dict"
           /\ trace[e][i].arg = json_loads(src_option[e]).value
      /\ Count(e, "build_source_dict") = 0

\* C3 (amended): in a setup whose sources option decodes to a non-empty
\* mapping, build_source_dict is never invoked, and once connect,
\* query_device_info and query_zones have succeeded the decoded mapping is
\* passed to set_source_dict, exactly once.
C3_NonEmptyExplicit ==
  \A e \in Entries :
    (WellFormed(e) /\ Truthy(json_loads(src_option[e]).value)) =>
      /\ Count(e, "build_source_dict") = 0
      /\ Count(e, "set_source_dict") <= 1
      /\ pc[e] \in {"store", "get_registry", "setup_done"} => SourceStepTaken(e)
      /\ SourceStepTaken(e) =>
           /\ trace[e][5].call = "set_source_dict"
           /\ trace[e][5].arg = json_loads(src_option[e]).value

C3_Witness ==
  \E e \in Entries :
    /\ pc[e] = "setup_done"
    /\ src_option[e] = "{\"TV\": \"05\"}"
    /\ trace[e][5] = Ev("set_source_dict", PyDict({<<"TV", "05">>}), "ok")

\* C4: in a setup whose sources option fails JSON decoding, the decode
\* failure is not raised: an error is logged, the source mapping is empty,
\* and the setup goes on to construct and initialise the client (whatever
\* it raises comes from a client step).
C4_MalformedRecovered ==
  \A e \in Entries :
    (InSetup(e) /\ ~json_loads(src_option[e]).ok) =>
      /\ logged[e]
      /\ sources[e] = PyDict({})
      /\ pc[e] # "construct" => Len(trace[e]) >= 1
      /\ pc[e] = "setup_raised" =>
           /\ trace[e][Len(trace[e])].out \in Exceptions
           /\ trace[e][Len(trace[e])].call \in
                {"PioneerAVR", "connect", "query_device_info", "query_zones",
                 "set_source_dict", "build_source_dict"}

C4_Witness ==
  \E e \in Entries :
    /\ pc[e] = "setup_done"
    /\ src_option[e] = "{\"TV\": "
    /\ logged[e]
    /\ Count(e, "connect") = 1

\* C5: in a setup whose sources option is empty (the empty string or an
\* empty object) and whose connect, query_device_info and query_zones
\* succeed, build_source_dict is invoked exactly once and set_source_dict
\* is not invoked.
C5_EmptyAutoDiscovers ==
  \A e \in Entries :
    (InSetup(e) /\ src_option[e] \in {"", "{}"}) =>
      /\ Count(e, "set_source_dict") = 0
      /\ Count(e, "build_source_dict") <= 1
      /\ pc[e] \in {"store", "get_registry", "setup_done"} => SourceStepTaken(e)
      /\ SourceStepTaken(e) => Count(e, "build_source_dict") = 1

C5_Witness ==
  \E e \in Entries :
    /\ pc[e] = "setup_done"
    /\ src_option[e] = "{}"
    /\ Count(e, "build_source_dict") = 1
    /\ Count(e, "set_source_dict") = 0

\* C6: a setup that fails at a client step (construction, connect,
\* query_device_info, query_zones, set_source_dict, build_source_dict)
\* leaves with ConfigEntryNotReady if the step raised a timeout, value or
\* attribute error, and with the unchanged exception otherwise, at
\* whichever step; a failed step ends the call, and no step is attempted
\* twice in one call.
C6_FailureByKind ==
  \A e \in Entries :
    /\ \A i \in 1..Len(trace[e]) :
         /\ Count(e, trace[e][i].call) = 1
         /\ trace[e][i].out # "ok" => (i = Len(trace[e]) /\ pc[e] = "setup_raised")
    /\ pc[e] = "setup_raised" =>
         LET last == trace[e][Len(trace[e])] IN
           /\ last.out \in {"TimeoutError", "ValueError", "AttributeError"}
                => exc[e] = "ConfigEntryNotReady"
           /\ last.out \notin {"TimeoutError", "ValueError", "AttributeError"}
                => exc[e] = last.out
    /\ pc[e] # "setup_raised" => exc[e] = "none"

C6_Witness ==
  \E e \in Entries :
    /\ pc[e] = "setup_raised"
    /\ trace[e][Len(trace[e])] = Ev("query_zones", PyNone, "AttributeError")
    /\ exc[e] = "ConfigEntryNotReady"

\* The calls of a setup follow the order of the code, each after the
\* previous one completed without error.
C7_Order ==
  \A e \in Entries :
    /\ \E x \in {"set_source_dict", "build_source_dict"} :
         IsPrefix(Calls(e), ClientCalls \o <<x>> \o Effects)
    /\ \A i \in 1..Len(trace[e]) : i < Len(trace[e]) => trace[e][i].out = "ok"
    /\ pc[e] = "setup_done" => Len(trace[e]) = 9
    /\ pc[e] = "setup_raised" => Len(trace[e]) <= 5

\* Until the five client steps of a setup have succeeded, no step of that
\* setup touches the stored map, the device registry, the scheduled
\* platform setups or the listeners of the entry.
C7_NoEffectBeforeSuccess ==
  \A e \in Entries :
    (pc[e] \in SetupIdle \cup {"construct", "connect", "query_device_info",
                               "query_zones", "source"}
       /\ pc'[e] # pc[e]) =>
      /\ hass_data'[e] = hass_data[e]
      /\ devices' = devices
      /\ listeners'[e] = listeners[e]
      /\ fwd'[e] = fwd[e]

\* C7: the client calls of a setup occur in the order connect,
\* query_device_info, query_zones, then one of set_source_dict and
\* build_source_dict, each after the previous one succeeded; storing the
\* client, registering the device, scheduling the platform setups and
\* registering the listener follow in that order only after all succeeded;
\* a setup in which a step fails changes none of the four.
C7_OrderAndEffects == []C7_Order /\ [][C7_NoEffectBeforeSuccess]_vars

C7_Witness ==
  \E e \in Entries :
    /\ pc[e] = "setup_raised"
    /\ Len(trace[e]) = 5
    /\ listeners[e] = 1
    /\ e \in devices
    /\ hass_data[e] = NoClient

\* C8: async_unload_entry starts the unload of every platform before any
\* of them completes, and neither shuts the client down, nor changes the
\* stored map, nor returns before all of them completed.  (That setup returns
\* with its platform setups still pending is the witness.)
C8_UnloadAwaitsAll ==
  \A e \in Entries :
    /\ (\E p \in PLATFORMS : unload[e][p] \in {"ok", "failed"}) =>
         \A p \in PLATFORMS : unload[e][p] # "none"
    /\ pc[e] \in {"shutdown", "unload_returned"} =>
         \A p \in PLATFORMS : unload[e][p] \in {"ok", "failed"}
    /\ pc[e] = "gather" =>
         /\ hass_data[e] # NoClient
         /\ hass_data[e] \notin shut
         /\ ret[e] = "none"

C8_Witness ==
  \E e \in Entries :
    /\ pc[e] = "gather"
    /\ unload[e]["media_player"] = "ok"
    /\ unload[e]["sensor"] = "started"
    /\ \A p \in PLATFORMS : fwd[e][p] = 1

\* Client instances built for entry e whose shutdown was never invoked.
Live(e) == {c \in 1..next_client : owner[c] = e /\ c \notin shut}

\* C9 (as claimed): whenever no call of an entry is in progress, the entry
\* has at most one client that was created and not shut down, and the
\* stored map refers to exactly that client: no created client is left
\* without shutdown outside the map, and no shut-down client stays in it.
C9_OneLiveClientPerEntry ==
  \A e \in Entries :
    pc[e] \in HostStates =>
      /\ Cardinality(Live(e)) <= 1
      /\ hass_data[e] # NoClient => hass_data[e] \in Live(e)
      /\ Live(e) # {} => hass_data[e] \in Live(e)

\* C10 (as claimed): whenever a scheduled platform setup task runs, the
\* stored map holds the entry's client and that client was not shut down.
C10_PlatformSetupSeesClient ==
  [][\A e \in Entries : \A p \in PLATFORMS :
       fwd'[e][p] < fwd[e][p] =>
         (hass_data[e] # NoClient /\ hass_data[e] \notin shut)]_vars

====
